---- MODULE Spec2Model ----
(***************************************************************************)
(* A model of adwords.py: online ad-slot allocation with the strategies   *)
(* greedy, balance and msvv, one pass of adwords over the query list, and  *)
(* the competitive-ratio estimate over 100 shuffles of that list.          *)
(*                                                                         *)
(* The two pandas tables are sequences of rows, in row order:              *)
(*   bidder_df         rows [Keyword, Advertiser, BidValue]                *)
(*   bidder_budget_df  rows [Advertiser, Budget], labelled by Advertiser   *)
(* Money is integral.  The msvv factor psi = 1 - e^(x) is computed in      *)
(* fixed point with Scale units to 1; a float is a record [k, v] whose     *)
(* kind k is "num", "nan" or "-inf".                                       *)
(***************************************************************************)
EXTENDS Integers, Sequences, FiniteSets

\* ------------------------------------------------------------- bounds
MaxBudget == 2
MaxBid == 2
MaxQueries == 2

\* the number of shuffled passes of competitive_ratio
permutations == 100

\* fixed-point unit of the msvv arithmetic, and the last Taylor term
Scale == 100000
ExpTerms == 40

\* the value None of `return None,0`
None == -1

Algos == {"greedy", "balance", "msvv"}

\* the query words: "a" and "b" have registered bids, nobody bids on "z"
QueryWords == {"a", "b", "z"}

\* row orders of the budget table: labels equal to positions, labels in
\* descending order, labels that are not 0..n-1
AdvOrders == {<<0, 1>>, <<1, 0>>, <<1, 2>>}

\* the row orders of the single pass: those above, and three advertisers whose
\* labels are 0..n-1 out of order
PassAdvOrders == AdvOrders \cup {<<2, 0, 1>>}

\* ------------------------------------------------------------- sequences
Reverse(s) == [j \in 1..Len(s) |-> s[Len(s) + 1 - j]]

RECURSIVE SumSeq(_)
SumSeq(s) == IF s = <<>> THEN 0 ELSE Head(s) + SumSeq(Tail(s))

\* mutant: every position drawn afresh from the list, as random.choices does
SamplesWithReplacement(s) ==
  { [j \in 1..Len(s) |-> s[p[j]]] : p \in [1..Len(s) -> 1..Len(s)] }

Permutations(s) ==
  { [j \in 1..Len(s) |-> s[p[j]]] :
      p \in { q \in [1..Len(s) -> 1..Len(s)] :
                \A a, b \in 1..Len(s) : a # b => q[a] # q[b] } }

RECURSIVE Gcd(_, _)
Gcd(a, b) == IF b = 0 THEN a ELSE Gcd(b, a % b)

Abs(n) == IF n < 0 THEN -n ELSE n

\* ------------------------------------------------------------- floats
Num(v) == [k |-> "num", v |-> v]
NaN == [k |-> "nan", v |-> 0]
NegInf == [k |-> "-inf", v |-> 0]

\* a < b on floats: false as soon as one side is nan
FloatLt(a, b) ==
  CASE a.k = "nan" \/ b.k = "nan" -> FALSE
    [] a.k = "-inf" -> b.k = "num"
    [] OTHER -> b.k = "num" /\ a.v < b.v

\* (term * num) \div d for d > 0, the product never formed whole
MulDiv(term, num, d) == (term \div d) * num + (((term % d) * num) \div d)

\* Scale * e^(num/den) for den > 0, by the Taylor series
RECURSIVE ExpSeries(_, _, _, _)
ExpSeries(term, num, den, n) ==
  IF term = 0 \/ n > ExpTerms THEN 0
  ELSE term + ExpSeries(MulDiv(term, num, den * n), num, den, n + 1)

ExpFix(num, den) ==
  LET g == Gcd(Abs(num), den)
  IN  ExpSeries(Scale, num \div g, den \div g, 1)

\* ------------------------------------------------------------- sorting
\* DataFrame.sort_values: the rows in the order given by before, where
\* before[h, j] says that row h sorts ahead of row j; rows that it does not
\* separate stay in their order
SortValues(rows, before) ==
  LET n == Len(rows)
      rank(j) == Cardinality({ h \in 1..n :
                    \/ before[h, j]
                    \/ (~before[j, h] /\ h < j) })
  IN  [r \in 1..n |-> rows[CHOOSE j \in 1..n : rank(j) = r - 1]]

\* the comparison of sorted(..., key=itemgetter(1)): on the scaled bids
KeyLt(e1, e2) == FloatLt(e1.scaled_bid, e2.scaled_bid)

\* list.sort of CPython on a short list: the run found at the start of the
\* list, reversed when descending, then binary insertion of the rest
RECURSIVE RunEnd(_, _, _)
RunEnd(s, j, descending) ==
  IF j > Len(s) THEN Len(s)
  ELSE IF KeyLt(s[j], s[j - 1]) = descending THEN RunEnd(s, j + 1, descending)
  ELSE j - 1

RECURSIVE BinarySearch(_, _, _, _)
BinarySearch(s, pivot, l, r) ==
  IF l >= r THEN l
  ELSE LET p == l + ((r - l) \div 2)
       IN  IF KeyLt(pivot, s[p]) THEN BinarySearch(s, pivot, l, p)
           ELSE BinarySearch(s, pivot, p + 1, r)

RECURSIVE binarysort(_, _)
binarysort(s, start) ==
  IF start > Len(s) THEN s
  ELSE LET l == BinarySearch(s, s[start], 1, start)
       IN  binarysort(SubSeq(s, 1, l - 1) \o <<s[start]>> \o SubSeq(s, l, start - 1)
                        \o SubSeq(s, start + 1, Len(s)),
                      start + 1)

list_sort(s) ==
  IF Len(s) < 2 THEN s
  ELSE LET descending == KeyLt(s[2], s[1])
           n == RunEnd(s, 3, descending)
           run == IF descending
                  THEN Reverse(SubSeq(s, 1, n)) \o SubSeq(s, n + 1, Len(s))
                  ELSE s
       IN  binarysort(run, n + 1)

\* sorted(bidder_scale_list, key=itemgetter(1), reverse=True)
sorted_reverse(s) == Reverse(list_sort(Reverse(s)))

\* ------------------------------------------------------------- tables
\* bidder_df.loc[[query]]: the rows of the keyword, in row order
Loc(df, query) == SelectSeq(df, LAMBDA row : row.Keyword = query)

\* the Advertiser labels present in a table
Labels(df) == { df[j].Advertiser : j \in 1..Len(df) }

\* bidder_budget_df.loc[advertiser, "Budget"]
BudgetOf(budget_df, advertiser) ==
  LET j == CHOOSE h \in 1..Len(budget_df) : budget_df[h].Advertiser = advertiser
  IN  budget_df[j].Budget

\* the Bid Value of the advertiser's first row among the keyword's rows
BidOf(interested_bidders, advertiser) ==
  LET j == CHOOSE h \in 1..Len(interested_bidders) :
             /\ interested_bidders[h].Advertiser = advertiser
             /\ \A g \in 1..(h - 1) : interested_bidders[g].Advertiser # advertiser
  IN  interested_bidders[j].BidValue

\* reset_index() numbers the budget rows 0, 1, ... and keeps them in row
\* order; isin() keeps the rows of the advertisers that bid on the keyword
find_interested_bidder_budget_df(interested_bidders_df, budget_df) ==
  LET numbered == [j \in 1..Len(budget_df) |->
                     [index |-> j - 1,
                      Advertiser |-> budget_df[j].Advertiser,
                      Budget |-> budget_df[j].Budget]]
  IN  SelectSeq(numbered,
                LAMBDA row : row.Advertiser \in Labels(interested_bidders_df))

\* what a strategy hands back: (designated_bidder, revenue), or a KeyError
Returned(bidder, bid) == [bidder |-> bidder, revenue |-> bid, error |-> FALSE]
KeyError == [bidder |-> None, revenue |-> 0, error |-> TRUE]

\* ------------------------------------------------------------- greedy
\* mutant: ascending=[True,True], the lowest bid first
GreedyBeforeAscending(r1, r2) ==
  \/ r1.BidValue < r2.BidValue
  \/ (r1.BidValue = r2.BidValue /\ r1.Advertiser < r2.Advertiser)

\* sort_values(by=["Bid Value","Advertiser"], ascending=[False,True])
GreedyBefore(r1, r2) ==
  \/ r1.BidValue > r2.BidValue
  \/ (r1.BidValue = r2.BidValue /\ r1.Advertiser < r2.Advertiser)

RECURSIVE GreedyScan(_, _)
GreedyScan(rows, budget_df) ==
  IF rows = <<>> THEN Returned(None, 0)
  ELSE IF BudgetOf(budget_df, Head(rows).Advertiser) >= Head(rows).BidValue
       THEN Returned(Head(rows).Advertiser, Head(rows).BidValue)
       ELSE GreedyScan(Tail(rows), budget_df)

greedy(interested_bidders, budget_df) ==
  GreedyScan(SortValues(interested_bidders,
                        [h, j \in 1..Len(interested_bidders) |->
                           GreedyBefore(interested_bidders[h], interested_bidders[j])]),
             budget_df)

\* ------------------------------------------------------------- balance
\* mutant: ascending=[False,False], the highest advertiser id first among ties
BalanceBeforeDescendingId(r1, r2) ==
  \/ r1.Budget > r2.Budget
  \/ (r1.Budget = r2.Budget /\ r1.Advertiser > r2.Advertiser)

\* sort_values(by=["Budget","Advertiser"], ascending=[False,True])
BalanceBefore(r1, r2) ==
  \/ r1.Budget > r2.Budget
  \/ (r1.Budget = r2.Budget /\ r1.Advertiser < r2.Advertiser)

RECURSIVE BalanceScan(_, _)
BalanceScan(rows, interested_bidders) ==
  IF rows = <<>> THEN Returned(None, 0)
  ELSE LET bid == BidOf(interested_bidders, Head(rows).Advertiser)
       IN  IF Head(rows).Budget >= bid
           THEN Returned(Head(rows).Advertiser, bid)
           ELSE BalanceScan(Tail(rows), interested_bidders)

balance(interested_bidders, budget_df) ==
  LET rows == find_interested_bidder_budget_df(interested_bidders, budget_df)
  IN  BalanceScan(SortValues(rows, [h, j \in 1..Len(rows) |->
                                      BalanceBefore(rows[h], rows[j])]),
                  interested_bidders)

\* ------------------------------------------------------------- msvv
\* mutant: the fraction spent itself, the "- 1" of the exponent forgotten
FractionSpentOnly(original_budget, budget) ==
  CASE original_budget > 0 ->
         [k |-> "num", num |-> original_budget - budget, den |-> original_budget]
    [] original_budget < 0 ->
         [k |-> "num", num |-> budget - original_budget, den |-> -original_budget]
    [] budget = 0 -> [k |-> "nan", num |-> 0, den |-> 1]
    [] budget < 0 -> [k |-> "+inf", num |-> 0, den |-> 1]
    [] OTHER -> [k |-> "-inf", num |-> 0, den |-> 1]

\* (original_budget - Budget) / original_budget - 1, as [num, den] with
\* den > 0, or the float the division by zero gives
FractionMinusOne(original_budget, budget) ==
  CASE original_budget > 0 -> [k |-> "num", num |-> -budget, den |-> original_budget]
    [] original_budget < 0 -> [k |-> "num", num |-> budget, den |-> -original_budget]
    [] budget = 0 -> [k |-> "nan", num |-> 0, den |-> 1]
    [] budget < 0 -> [k |-> "+inf", num |-> 0, den |-> 1]
    [] OTHER -> [k |-> "-inf", num |-> 0, den |-> 1]

\* psi = 1 - math.exp(fraction_of_budget_spent - 1)
Psi(original_budget, budget) ==
  LET x == FractionMinusOne(original_budget, budget)
  IN  CASE x.k = "num" -> Num(Scale - ExpFix(x.num, x.den))
        [] x.k = "nan" -> NaN
        [] x.k = "+inf" -> NegInf
        [] OTHER -> Num(Scale)

\* scaled_bid = original_bid * psi
ScaledBid(original_bid, psi) ==
  CASE psi.k = "num" -> Num(original_bid * psi.v)
    [] psi.k = "nan" -> NaN
    [] original_bid = 0 -> NaN
    [] OTHER -> psi

bidder_scale_list(interested_bidders, budget_df, orig_budget_df) ==
  LET rows == find_interested_bidder_budget_df(interested_bidders, budget_df)
  IN  [j \in 1..Len(rows) |->
         [Advertiser |-> rows[j].Advertiser,
          scaled_bid |-> ScaledBid(BidOf(interested_bidders, rows[j].Advertiser),
                                   Psi(BudgetOf(orig_budget_df, rows[j].Advertiser),
                                       rows[j].Budget))]]

\* interested_bidder_budget_df.loc[bidder]: the row NUMBERED bidder
HasIndex(rows, label) == \E j \in 1..Len(rows) : rows[j].index = label
AtIndex(rows, label) == rows[CHOOSE j \in 1..Len(rows) : rows[j].index = label]

RECURSIVE MsvvScan(_, _, _)
MsvvScan(list, interested_bidders, rows) ==
  IF list = <<>> THEN Returned(None, 0)
  ELSE LET bidder == Head(list).Advertiser
           bid == BidOf(interested_bidders, bidder)
       IN  IF ~HasIndex(rows, bidder) THEN KeyError
           ELSE IF AtIndex(rows, bidder).Budget >= bid THEN Returned(bidder, bid)
           ELSE MsvvScan(Tail(list), interested_bidders, rows)

msvv(interested_bidders, budget_df, orig_budget_df) ==
  MsvvScan(sorted_reverse(bidder_scale_list(interested_bidders, budget_df, orig_budget_df)),
           interested_bidders,
           find_interested_bidder_budget_df(interested_bidders, budget_df))

\* ------------------------------------------------------------- state
VARIABLES
  bidder_df,               \* rows [Keyword, Advertiser, BidValue]
  bidder_budget_df,        \* rows [Advertiser, Budget]: the live budgets
  queries,                 \* the query list, shuffled in place
  algo,                    \* sys.argv[1]
  loaded_budget_df,        \* the budgets as bidder_dataset.csv holds them
  pc,                      \* where the program is
  caller,                  \* who called adwords: "main" or "competitive_ratio"
  optimal_revenue,         \* main: the sum of the budgets
  printed,                 \* main: what has been printed
  orig_bidder_budget_df,   \* adwords: the copy taken as the pass starts
  total_revenue,           \* adwords: the accumulator
  q,                       \* adwords: position in queries of the next query
  designated_bidder,       \* adwords: the strategy's bidder
  revenue,                 \* adwords: the strategy's charge
  charges,                 \* adwords: the charges returned so far in this pass
  i,                       \* competitive_ratio: passes started
  cr_total_revenue         \* competitive_ratio: its total_revenue

vars == <<bidder_df, bidder_budget_df, queries, algo, loaded_budget_df, pc, caller,
          optimal_revenue, printed, orig_bidder_budget_df, total_revenue, q,
          designated_bidder, revenue, charges, i, cr_total_revenue>>

catalog == <<bidder_df, algo, loaded_budget_df>>
adwords_locals == <<orig_bidder_budget_df, total_revenue, q, designated_bidder,
                    revenue, charges>>

\* ------------------------------------------------------------- inputs
BudgetTables(orders) ==
  UNION { { [j \in 1..Len(order) |-> [Advertiser |-> order[j], Budget |-> b[j]]] :
              b \in [1..Len(order) -> 0..MaxBudget] } :
          order \in orders }

\* every advertiser bids on "a" and on "b".  On "a" the advertisers of the
\* odd budget rows bid x and those of the even rows y, the bids listed in the
\* order of the budget rows; on "b" it is y and x, listed in the other order
BidTable(budget_df, x, y) ==
  LET n == Len(budget_df)
  IN  [j \in 1..n |->
         [Keyword |-> "a", Advertiser |-> budget_df[j].Advertiser,
          BidValue |-> IF j % 2 = 1 THEN x ELSE y]]
      \o
      [j \in 1..n |->
         [Keyword |-> "b", Advertiser |-> budget_df[n + 1 - j].Advertiser,
          BidValue |-> IF (n + 1 - j) % 2 = 1 THEN y ELSE x]]

QueryLists == UNION { [1..n -> QueryWords] : n \in 0..MaxQueries }

\* read_filter_data has returned
Loaded(orders) ==
  /\ bidder_budget_df \in BudgetTables(orders)
  /\ \E x, y \in 0..MaxBid : bidder_df = BidTable(bidder_budget_df, x, y)
  /\ queries \in QueryLists
  /\ algo \in Algos
  /\ loaded_budget_df = bidder_budget_df
  /\ pc = "main"
  /\ caller = "main"
  /\ optimal_revenue = 0
  /\ printed = <<>>
  /\ orig_bidder_budget_df = <<>>
  /\ total_revenue = 0
  /\ q = 1
  /\ designated_bidder = None
  /\ revenue = 0
  /\ charges = <<>>
  /\ i = 0
  /\ cr_total_revenue = 0

Init == Loaded(AdvOrders)

PassInit == Loaded(PassAdvOrders)

\* ------------------------------------------------------------- adwords
\* the entry of adwords: total_revenue = 0 and the copy of the budgets
adwords_enter(who) ==
  /\ caller' = who
  /\ total_revenue' = 0
  /\ orig_bidder_budget_df' = bidder_budget_df
  /\ q' = 1
  /\ charges' = <<>>
  /\ designated_bidder' = None
  /\ revenue' = 0
  /\ pc' = "query"

Strategy(interested_bidders) ==
  CASE algo = "greedy" -> greedy(interested_bidders, bidder_budget_df)
    [] algo = "balance" -> balance(interested_bidders, bidder_budget_df)
    [] algo = "msvv" -> msvv(interested_bidders, bidder_budget_df, orig_bidder_budget_df)

\* mutant: the row selector dropped, every advertiser pays
ChargeEveryRow(budget_df, bidder, amount) ==
  [j \in 1..Len(budget_df) |-> [budget_df[j] EXCEPT !.Budget = @ - amount]]

\* mutant: total_revenue = revenue, the sum so far overwritten
AddRevenueOverwrite(total, amount) == amount

\* total_revenue += revenue
AddRevenue(total, amount) == total + amount

\* the budgets after the bidder has paid amount
Charge(budget_df, bidder, amount) ==
  [j \in 1..Len(budget_df) |->
     IF budget_df[j].Advertiser = bidder
     THEN [budget_df[j] EXCEPT !.Budget = @ - amount]
     ELSE budget_df[j]]

\* lines 160-166: the keyword's rows and the strategy's answer
adwords_select ==
  /\ pc = "query"
  /\ q <= Len(queries)
  /\ LET interested_bidders == Loc(bidder_df, queries[q])
         r == IF interested_bidders = <<>> THEN KeyError
              ELSE Strategy(interested_bidders)
     IN  /\ designated_bidder' = r.bidder
         /\ revenue' = r.revenue
         /\ pc' = IF r.error THEN "KeyError" ELSE "charge"
  /\ UNCHANGED <<catalog, bidder_budget_df, queries, caller, optimal_revenue, printed,
                 orig_bidder_budget_df, total_revenue, q, charges, i, cr_total_revenue>>

\* lines 169-172: the designated bidder pays and the revenue is added
adwords_charge ==
  /\ pc = "charge"
  /\ bidder_budget_df' = IF designated_bidder # None
                         THEN Charge(bidder_budget_df, designated_bidder, revenue)
                         ELSE bidder_budget_df
  /\ total_revenue' = AddRevenue(total_revenue, revenue)
  /\ charges' = Append(charges, revenue)
  /\ q' = q + 1
  /\ pc' = "query"
  /\ UNCHANGED <<catalog, queries, caller, optimal_revenue, printed,
                 orig_bidder_budget_df, designated_bidder, revenue, i, cr_total_revenue>>

\* ------------------------------------------------------------- main
\* line 196: bidder_budget_df.sum(axis=0).iloc[0], the sum of the Budget column
BudgetSum(budget_df) == SumSeq([j \in 1..Len(budget_df) |-> budget_df[j].Budget])

\* lines 196-209: the optimal revenue, then the single pass
main_adwords ==
  /\ pc = "main"
  /\ optimal_revenue' = BudgetSum(bidder_budget_df)
  /\ adwords_enter("main")
  /\ UNCHANGED <<catalog, bidder_budget_df, queries, printed, i, cr_total_revenue>>

\* line 174 back in main, and line 210
main_print ==
  /\ pc = "query"
  /\ q > Len(queries)
  /\ caller = "main"
  /\ printed' = Append(printed, Num(total_revenue))
  /\ pc' = "printed"
  /\ UNCHANGED <<catalog, bidder_budget_df, queries, caller, optimal_revenue,
                 adwords_locals, i, cr_total_revenue>>

\* mutant: the optimal revenue summed only now, after the single pass
main_competitive_ratio_sums_late ==
  /\ pc = "printed"
  /\ optimal_revenue' = BudgetSum(bidder_budget_df)
  /\ i' = 0
  /\ cr_total_revenue' = 0
  /\ pc' = "trial"
  /\ UNCHANGED <<catalog, bidder_budget_df, queries, caller, printed, adwords_locals>>

\* line 211 and lines 181-183
main_competitive_ratio ==
  /\ pc = "printed"
  /\ i' = 0
  /\ cr_total_revenue' = 0
  /\ pc' = "trial"
  /\ UNCHANGED <<catalog, bidder_budget_df, queries, caller, optimal_revenue, printed,
                 adwords_locals>>

\* ------------------------------------------------------------- competitive_ratio
\* lines 184-186: one more shuffle, one more pass
competitive_ratio_shuffle ==
  /\ pc = "trial"
  /\ i < permutations
  /\ queries' \in Permutations(queries)
  /\ i' = i + 1
  /\ adwords_enter("competitive_ratio")
  /\ UNCHANGED <<catalog, bidder_budget_df, optimal_revenue, printed, cr_total_revenue>>

\* line 174 back in competitive_ratio, line 186
competitive_ratio_add ==
  /\ pc = "query"
  /\ q > Len(queries)
  /\ caller = "competitive_ratio"
  /\ cr_total_revenue' = cr_total_revenue + total_revenue
  /\ pc' = "trial"
  /\ UNCHANGED <<catalog, bidder_budget_df, queries, caller, optimal_revenue, printed,
                 adwords_locals, i>>

\* avg_revenue / optimal_revenue, as [num, den] with den > 0, or what the
\* division by zero gives
Ratio(total, optimal) ==
  CASE optimal > 0 -> [k |-> "num", num |-> total, den |-> permutations * optimal]
    [] optimal < 0 -> [k |-> "num", num |-> -total, den |-> permutations * (-optimal)]
    [] total = 0 -> [k |-> "nan", num |-> 0, den |-> 1]
    [] total > 0 -> [k |-> "+inf", num |-> 0, den |-> 1]
    [] OTHER -> [k |-> "-inf", num |-> 0, den |-> 1]

\* lines 188-190 and 212
competitive_ratio_return ==
  /\ pc = "trial"
  /\ i = permutations
  /\ printed' = Append(printed, Ratio(cr_total_revenue, optimal_revenue))
  /\ pc' = "done"
  /\ UNCHANGED <<catalog, bidder_budget_df, queries, caller, optimal_revenue,
                 adwords_locals, i, cr_total_revenue>>

Next ==
  \/ main_adwords
  \/ adwords_select
  \/ adwords_charge
  \/ main_print
  \/ main_competitive_ratio
  \/ competitive_ratio_shuffle
  \/ competitive_ratio_add
  \/ competitive_ratio_return

\* the whole of main
Spec == Init /\ [][Next]_vars

\* main as far as its first print: the single pass over the queries as read
NextPass ==
  \/ main_adwords
  \/ adwords_select
  \/ adwords_charge
  \/ main_print

PassSpec == PassInit /\ [][NextPass]_vars

\* ============================================================= claims
\* the keyword's rows for the query at position q
Interested == Loc(bidder_df, queries[q])

\* the bidders on the keyword whose remaining budget covers their bid
Affordable(interested_bidders, budget_df) ==
  { a \in Labels(interested_bidders) :
      BudgetOf(budget_df, a) >= BidOf(interested_bidders, a) }

\* a strategy has just answered the query at position q
Answered(name) == pc = "charge" /\ algo = name

\* adwords is about to return to its caller
Returning == pc = "query" /\ q > Len(queries)

\* C1: in a pass of adwords, after every processed query each advertiser's
\* remaining budget is >= 0, <= its budget at the start of the pass and
\* <= its value before that query.
C1_BudgetsNeverNegativeNonIncreasing ==
  [][pc = "charge" =>
       \A j \in 1..Len(bidder_budget_df) :
         /\ bidder_budget_df'[j].Budget >= 0
         /\ bidder_budget_df'[j].Budget <= orig_bidder_budget_df[j].Budget
         /\ bidder_budget_df'[j].Budget <= bidder_budget_df[j].Budget]_vars

\* C2: when a trial of competitive_ratio processes its first query, every
\* advertiser's remaining budget equals its budget as loaded.
C2_TrialStartsFromLoadedBudgets ==
  (caller = "competitive_ratio" /\ pc = "query" /\ q = 1 /\ queries # <<>>)
    => bidder_budget_df = loaded_budget_df

\* C3: a returned winner has a bid on the keyword, the charge is that bid and
\* the winner's remaining budget covers it; (None, 0) is returned exactly when
\* no bidder on the keyword can afford its bid.
C3_WinnerIsAffordableBidder ==
  pc = "charge" =>
    /\ designated_bidder # None =>
         /\ designated_bidder \in Labels(Interested)
         /\ revenue = BidOf(Interested, designated_bidder)
         /\ BudgetOf(bidder_budget_df, designated_bidder) >= revenue
    /\ designated_bidder = None =>
         /\ revenue = 0
         /\ Affordable(Interested, bidder_budget_df) = {}
    /\ Affordable(Interested, bidder_budget_df) = {} => designated_bidder = None

\* C4: greedy returns the affordable bidder with the maximum bid, the smallest
\* advertiser id among several with that bid, and charges that bid.
C4_GreedyMaxAffordableBid ==
  Answered("greedy") =>
    LET aff == Affordable(Interested, bidder_budget_df)
    IN  IF aff = {}
        THEN designated_bidder = None /\ revenue = 0
        ELSE /\ designated_bidder \in aff
             /\ revenue = BidOf(Interested, designated_bidder)
             /\ \A a \in aff :
                  \/ BidOf(Interested, a) < revenue
                  \/ (BidOf(Interested, a) = revenue /\ designated_bidder <= a)

\* greedy has passed over a higher bidder that cannot afford its bid
C4_Witness ==
  /\ Answered("greedy")
  /\ designated_bidder # None
  /\ \E a \in Labels(Interested) :
       /\ BidOf(Interested, a) > revenue
       /\ BudgetOf(bidder_budget_df, a) < BidOf(Interested, a)

\* C5: balance returns the affordable bidder with the maximum remaining
\* budget, the smallest advertiser id among several with that budget, and
\* charges that bidder's own bid on the keyword.
C5_BalanceMaxAffordableBudget ==
  Answered("balance") =>
    LET aff == Affordable(Interested, bidder_budget_df)
    IN  IF aff = {}
        THEN designated_bidder = None /\ revenue = 0
        ELSE /\ designated_bidder \in aff
             /\ revenue = BidOf(Interested, designated_bidder)
             /\ \A a \in aff :
                  \/ BudgetOf(bidder_budget_df, a)
                       < BudgetOf(bidder_budget_df, designated_bidder)
                  \/ /\ BudgetOf(bidder_budget_df, a)
                          = BudgetOf(bidder_budget_df, designated_bidder)
                     /\ designated_bidder <= a

\* balance has chosen between two affordable bidders of equal budget whose
\* bids differ, and the charge differs from the budget
C5_Witness ==
  /\ Answered("balance")
  /\ designated_bidder # None
  /\ revenue # BudgetOf(bidder_budget_df, designated_bidder)
  /\ \E a \in Affordable(Interested, bidder_budget_df) :
       /\ a # designated_bidder
       /\ BudgetOf(bidder_budget_df, a) = BudgetOf(bidder_budget_df, designated_bidder)
       /\ BidOf(Interested, a) # revenue

\* the scaled bid msvv gives the advertiser in the present state
ScaledBidOf(a) ==
  ScaledBid(BidOf(Interested, a),
            Psi(BudgetOf(orig_bidder_budget_df, a), BudgetOf(bidder_budget_df, a)))

\* C6: msvv returns an affordable bidder whose scaled bid is maximal among the
\* affordable bidders, and charges the unscaled bid.
C6_MsvvMaxAffordableScaledBid ==
  Answered("msvv") =>
    LET aff == Affordable(Interested, bidder_budget_df)
    IN  IF aff = {}
        THEN designated_bidder = None /\ revenue = 0
        ELSE /\ designated_bidder \in aff
             /\ revenue = BidOf(Interested, designated_bidder)
             /\ \A a \in aff : ~FloatLt(ScaledBidOf(designated_bidder), ScaledBidOf(a))

\* C7: in every msvv pass the fraction spent is computed against the budget
\* as loaded: the original_budget msvv reads is the loaded budget.
C7_MsvvFractionAgainstLoadedBudget ==
  Answered("msvv") =>
    \A a \in Labels(Interested) :
      BudgetOf(orig_bidder_budget_df, a) = BudgetOf(loaded_budget_df, a)

\* C8: a query whose keyword has no registered bidder is not an error:
\* adwords does not fail on it.
C8_UnknownKeywordIsNoError ==
  (q <= Len(queries) /\ Interested = <<>>) => pc # "KeyError"

\* C9: adwords returns the sum, over the queries in order, of the charges the
\* strategy returned; for an empty query list it returns 0 and leaves the
\* budgets unchanged.
C9_RevenueIsSumOfCharges ==
  /\ Returning =>
       /\ Len(charges) = Len(queries)
       /\ total_revenue = SumSeq(charges)
       /\ queries = <<>> =>
            total_revenue = 0 /\ bidder_budget_df = orig_bidder_budget_df
  /\ pc = "printed" => printed = <<Num(SumSeq(charges))>>

\* adwords returns after two queries that were both charged
C9_Witness ==
  /\ Returning
  /\ Len(charges) = 2
  /\ charges[1] > 0
  /\ charges[2] > 0

\* C10: processing a query changes at most the winner's budget, by exactly the
\* charge; without a winner no budget changes; the strategy call changes no
\* budget; the bid table never changes.
C10_OnlyWinnerPays ==
  [][/\ bidder_df' = bidder_df
     /\ pc = "query" => bidder_budget_df' = bidder_budget_df
     /\ pc = "charge" =>
          /\ Len(bidder_budget_df') = Len(bidder_budget_df)
          /\ \A j \in 1..Len(bidder_budget_df) :
               /\ bidder_budget_df'[j].Advertiser = bidder_budget_df[j].Advertiser
               /\ bidder_budget_df'[j].Budget =
                    IF bidder_budget_df[j].Advertiser = designated_bidder
                    THEN bidder_budget_df[j].Budget - revenue
                    ELSE bidder_budget_df[j].Budget]_vars

\* a winner has just paid a positive charge
C10_Witness ==
  /\ pc = "query"
  /\ q = 2
  /\ designated_bidder # None
  /\ revenue > 0
  /\ BudgetOf(bidder_budget_df, designated_bidder)
       = BudgetOf(orig_bidder_budget_df, designated_bidder) - revenue
  /\ \E j \in 1..Len(bidder_budget_df) :
       /\ bidder_budget_df[j].Advertiser # designated_bidder
       /\ bidder_budget_df[j].Budget = orig_bidder_budget_df[j].Budget
       /\ bidder_budget_df[j].Budget >= revenue

\* every advertiser was loaded with a positive budget (the bids of BidTable
\* are never negative)
PositiveBudgets == \A j \in 1..Len(loaded_budget_df) : loaded_budget_df[j].Budget > 0

\* C11: for a catalog with positive budgets and non-negative bids the ratio
\* that competitive_ratio returns is a number between 0 and 1
C11_RatioBetweenZeroAndOne ==
  (pc = "done" /\ PositiveBudgets)
    => /\ printed[2].k = "num"
       /\ 0 <= printed[2].num
       /\ printed[2].num <= printed[2].den

\* C13: a catalog in which some advertiser's initial budget is zero or
\* negative is rejected when it is loaded, before any query is processed: a
\* strategy only ever answers a query for a catalog whose budgets as loaded
\* are all positive, so that msvv never divides by such a budget
C13_NonPositiveBudgetRejectedAtLoad ==
  pc = "charge"
    => \A j \in 1..Len(loaded_budget_df) : loaded_budget_df[j].Budget > 0

\* the bidders on the keyword whose fraction of budget spent lies between 0
\* and 1: a positive budget at the start of the pass, and between nothing and
\* all of it left
FractionInUnitInterval ==
  { a \in Labels(Interested) :
      /\ BudgetOf(orig_bidder_budget_df, a) > 0
      /\ 0 <= BudgetOf(bidder_budget_df, a)
      /\ BudgetOf(bidder_budget_df, a) <= BudgetOf(orig_bidder_budget_df, a) }

\* the psi msvv computes for the advertiser in the present state
PsiOf(a) == Psi(BudgetOf(orig_bidder_budget_df, a), BudgetOf(bidder_budget_df, a))

\* C14 as stated: for every fraction spent between 0 and 1, psi lies in the
\* open interval (1 - 1/e, 1), about (0.632, 1)
C14_PsiAboveOneMinusInvE ==
  Answered("msvv") =>
    \A a \in FractionInUnitInterval :
      /\ PsiOf(a).k = "num"
      /\ PsiOf(a).v * 1000 > 632 * Scale
      /\ PsiOf(a).v < Scale

\* C14: for every fraction spent between 0 and 1, psi lies in the closed
\* interval [0, 1 - 1/e], about [0, 0.632]: it is 1 - 1/e when nothing is
\* spent, 0 when everything is spent, and strictly between the two otherwise
C14_PsiBetweenZeroAndOneMinusInvE ==
  Answered("msvv") =>
    \A a \in FractionInUnitInterval :
      LET psi == PsiOf(a)
          left == BudgetOf(bidder_budget_df, a)
          whole == BudgetOf(orig_bidder_budget_df, a)
      IN  /\ psi.k = "num"
          /\ 0 <= psi.v
          /\ psi.v * 1000 <= 633 * Scale
          /\ left = whole => psi.v * 1000 >= 632 * Scale
          /\ left = 0 => psi.v = 0
          /\ (0 < left /\ left < whole) => (0 < psi.v /\ psi.v * 1000 < 632 * Scale)

\* msvv answers a query on which a bidder has spent a part of its budget
C14_Witness ==
  /\ Answered("msvv")
  /\ \E a \in FractionInUnitInterval :
       /\ 0 < BudgetOf(bidder_budget_df, a)
       /\ BudgetOf(bidder_budget_df, a) < BudgetOf(orig_bidder_budget_df, a)

\* the sum of the budgets as loaded
LoadedBudgetSum ==
  SumSeq([j \in 1..Len(loaded_budget_df) |-> loaded_budget_df[j].Budget])

\* C15: the optimal revenue main hands to competitive_ratio, the denominator
\* of the returned ratio, is the sum of the budgets as loaded, although the
\* single pass of main has changed the budget table before competitive_ratio
\* is called
C15_OptimalRevenueIsLoadedBudgetSum ==
  /\ pc # "main" => optimal_revenue = LoadedBudgetSum
  /\ pc = "done" => printed[2] = Ratio(cr_total_revenue, LoadedBudgetSum)

\* competitive_ratio has returned for a catalog whose budgets the passes
\* have changed
C15_Witness ==
  /\ pc = "done"
  /\ optimal_revenue > 0
  /\ BudgetSum(bidder_budget_df) < LoadedBudgetSum

\* the two lists have the same length and hold every keyword equally often
SameMultiset(s, t) ==
  /\ Len(s) = Len(t)
  /\ \A w \in QueryWords :
       Cardinality({j \in 1..Len(s) : s[j] = w}) = Cardinality({j \in 1..Len(t) : t[j] = w})

\* C16: competitive_ratio runs exactly 100 trials, and the list every trial
\* processes is a permutation of the list as read: no step changes the length
\* or the multiset of the query list, the counter of trials starts at 0, goes
\* up by one with every trial and with nothing else, and competitive_ratio
\* returns when it stands at 100
C16_HundredTrialsOverPermutations ==
  [][/\ SameMultiset(queries', queries)
     /\ (pc = "printed" /\ pc' = "trial") => i' = 0
     /\ (pc = "trial" /\ pc' = "query")
          => (i' = i + 1 /\ i' <= permutations /\ caller' = "competitive_ratio")
     /\ ~(pc = "printed" /\ pc' = "trial") /\ ~(pc = "trial" /\ pc' = "query")
          => i' = i
     /\ pc' = "done" => i' = permutations]_vars

\* competitive_ratio has returned after its trials over a list of two
\* different keywords
C16_Witness ==
  /\ pc = "done"
  /\ i = permutations
  /\ Len(queries) = MaxQueries
  /\ \E j, h \in 1..Len(queries) : queries[j] # queries[h]

\* C17: when a pass of adwords returns, its total revenue is the sum over the
\* advertisers of the budget at the start of the pass minus the budget at the
\* end, and so it is no more than the sum of the budgets the pass started with
C17_RevenueIsBudgetSpent ==
  Returning =>
    /\ total_revenue = BudgetSum(orig_bidder_budget_df) - BudgetSum(bidder_budget_df)
    /\ total_revenue <= BudgetSum(orig_bidder_budget_df)

\* the budget rows of the bidders on the keyword, numbered as reset_index
\* numbers them
InterestedRows == find_interested_bidder_budget_df(Interested, bidder_budget_df)

\* the bidder msvv tests first: the head of its sorted list
FirstTested ==
  sorted_reverse(bidder_scale_list(Interested, bidder_budget_df,
                                   orig_bidder_budget_df))[1].Advertiser

\* C18: on every catalog, also one whose advertiser ids are not the row
\* numbers, the budget msvv compares a candidate's bid with is the remaining
\* budget of that same advertiser, and the lookup does not fail: so it is for
\* the first candidate msvv tests, and for the bidder it returns
C18_MsvvTestsTheBiddersOwnBudget ==
  (algo = "msvv" /\ pc \in {"charge", "KeyError"} /\ Interested # <<>>)
    => /\ pc = "charge"
       /\ HasIndex(InterestedRows, FirstTested)
       /\ AtIndex(InterestedRows, FirstTested).Advertiser = FirstTested
       /\ designated_bidder # None
            => /\ AtIndex(InterestedRows, designated_bidder).Advertiser = designated_bidder
               /\ BudgetOf(bidder_budget_df, designated_bidder) >= revenue

\* the affordable bidders on the keyword whose scaled bid is a number and is
\* the greatest of the affordable bidders' scaled bids
TopAffordable ==
  LET aff == Affordable(Interested, bidder_budget_df)
  IN  { a \in aff :
          /\ ScaledBidOf(a).k = "num"
          /\ \A b \in aff : ScaledBidOf(b).k = "num" /\ ScaledBidOf(b).v <= ScaledBidOf(a).v }

\* the row of the advertiser in the budget table
RowOf(a) == CHOOSE j \in 1..Len(bidder_budget_df) : bidder_budget_df[j].Advertiser = a

\* C19: when several affordable bidders share the greatest scaled bid, msvv
\* returns the one of them whose advertiser stands earliest in the budget
\* table, whatever the order in which the keyword's bids are listed
C19_MsvvTieGoesToEarliestBudgetRow ==
  (Answered("msvv") /\ Cardinality(TopAffordable) >= 2)
    => /\ designated_bidder \in TopAffordable
       /\ \A a \in TopAffordable : RowOf(designated_bidder) <= RowOf(a)

====
